---- MODULE Spec2Model ----
(***************************************************************************)
(* CreativaHub: the relational store (users, courses, course_enrollments,  *)
(* assignments, assignment_submissions, portfolio_projects) and the        *)
(* command handlers that write it.  A table is the sequence of its rows in *)
(* insertion order; the serial primary key of a row is its position.       *)
(***************************************************************************)
EXTENDS Integers, Sequences, FiniteSets, TLC

VARIABLES users, courses, enrollments, assignments, submissions, projects,
          now, last, pc, req

vars == <<users, courses, enrollments, assignments, submissions, projects,
          now, last, pc, req>>

store == <<users, courses, enrollments, assignments, submissions, projects>>

(***************************************************************************)
(* Bounds of the model.                                                    *)
(***************************************************************************)
MaxUsers == 2
MaxCourses == 2
MaxEnrollments == 2
MaxAssignments == 1
MaxSubmissions == 1
MaxProjects == 2
MaxTime == 1
NumProcs == 2

(***************************************************************************)
(* Enumerations of the schema.                                             *)
(***************************************************************************)
userRoleEnum == {"student", "teacher", "admin"}
courseStatusEnum == {"draft", "published", "archived"}
assignmentStatusEnum == {"draft", "published", "closed"}
submissionStatusEnum == {"draft", "submitted", "graded"}

(***************************************************************************)
(* JavaScript values of optional and nullable fields.  A field a caller    *)
(* leaves out is Undefined; null is Null; a string s is Str(s); a boolean  *)
(* b is Bool(b).  OrElse is the || operator, Coalesce the ?? operator.     *)
(***************************************************************************)
Undefined == <<"undefined">>
Null == <<"null">>
Str(s) == <<"string", s>>
Bool(b) == <<"boolean", b>>
Num(n) == <<"number", n>>
Object(o) == <<"object", o>>

Falsy(v) == v \in {Undefined, Null, Str(""), Bool(FALSE), Num(0)}
OrElse(v, d) == IF Falsy(v) THEN d ELSE v
Coalesce(v, d) == IF v \in {Undefined, Null} THEN d ELSE v

OK == "ok"

\* As many addresses as there can be users.
Emails == 1..MaxUsers

(***************************************************************************)
(* Queries shared by the handlers.                                         *)
(***************************************************************************)
\* db.select().from(table).where(eq(table.id, id)): the rows with that key.
selectById(table, id) == SelectSeq(table, LAMBDA r : r.id = id)

usersEmailUnique_noIndex(us, id, email) == TRUE

\* The unique index on users.email: no row other than `id` holds `email`.
usersEmailUnique(us, id, email) ==
    \A i \in DOMAIN us : us[i].id # id => us[i].email # email

\* db.select().from(courseEnrollmentsTable).where(and(course_id, student_id))
selectEnrollment(es, course_id, student_id) ==
    SelectSeq(es, LAMBDA e : e.course_id = course_id /\ e.student_id = student_id)

\* The insert into course_enrollments: the table has no unique index on
\* (course_id, student_id), so the store accepts every row.
insertEnrollment(es, course_id, student_id) ==
    Append(es, [id |-> Len(es) + 1, course_id |-> course_id,
                student_id |-> student_id])

(***************************************************************************)
(* createUser, updateUser: one INSERT / UPDATE statement each; the store   *)
(* rejects the statement when it would break the unique index on email.    *)
(***************************************************************************)
UniqueViolation == "duplicate key value violates unique constraint"
UserNotFound == "User with id not found"

\* Bun.password.hash(password): a salted hash in its own format.
bunPasswordHash(password) == <<"bun", password>>

\* Bun.password.verify(password, hash)
bunPasswordVerify(password, hash) == hash = bunPasswordHash(password)

\* A row of users.  full_name is left out: it is written and read exactly
\* as email is, without the unique index.
createUser(us, input, t) ==
    IF ~usersEmailUnique(us, 0, input.email)
    THEN [out |-> UniqueViolation, users |-> us]
    ELSE [out |-> OK,
          users |-> Append(us, [id |-> Len(us) + 1, email |-> input.email,
                                password_hash |-> bunPasswordHash(input.password),
                                role |-> input.role,
                                avatar_url |-> OrElse(input.avatar_url, Null),
                                is_active |-> TRUE,
                                created_at |-> t, updated_at |-> t])]

updateUser_setsAll(us, input, t) ==
    IF Len(selectById(us, input.id)) = 0
    THEN [out |-> UserNotFound, users |-> us]
    ELSE LET old == us[input.id]
             new == [old EXCEPT
                       !.email = IF input.email = Undefined THEN @
                                 ELSE input.email[2],
                       !.avatar_url = IF input.avatar_url = Undefined THEN Null
                                      ELSE input.avatar_url,
                       !.is_active = IF input.is_active = Undefined THEN @
                                     ELSE input.is_active[2],
                       !.updated_at = t]
         IN  IF ~usersEmailUnique(us, input.id, new.email)
             THEN [out |-> UniqueViolation, users |-> us]
             ELSE [out |-> OK, users |-> [us EXCEPT ![input.id] = new]]

updateUser_resetsRole(us, input, t) ==
    IF Len(selectById(us, input.id)) = 0
    THEN [out |-> UserNotFound, users |-> us]
    ELSE LET old == us[input.id]
             new == [old EXCEPT
                       !.email = IF input.email = Undefined THEN @
                                 ELSE input.email[2],
                       !.role = "student",
                       !.avatar_url = IF input.avatar_url = Undefined THEN @
                                      ELSE input.avatar_url,
                       !.is_active = IF input.is_active = Undefined THEN @
                                     ELSE input.is_active[2],
                       !.updated_at = t]
         IN  IF ~usersEmailUnique(us, input.id, new.email)
             THEN [out |-> UniqueViolation, users |-> us]
             ELSE [out |-> OK, users |-> [us EXCEPT ![input.id] = new]]

updateUser(us, input, t) ==
    IF Len(selectById(us, input.id)) = 0
    THEN [out |-> UserNotFound, users |-> us]
    ELSE LET old == us[input.id]
             new == [old EXCEPT
                       !.email = IF input.email = Undefined THEN @
                                 ELSE input.email[2],
                       !.avatar_url = IF input.avatar_url = Undefined THEN @
                                      ELSE input.avatar_url,
                       !.is_active = IF input.is_active = Undefined THEN @
                                     ELSE input.is_active[2],
                       !.updated_at = t]
         IN  IF ~usersEmailUnique(us, input.id, new.email)
             THEN [out |-> UniqueViolation, users |-> us]
             ELSE [out |-> OK, users |-> [us EXCEPT ![input.id] = new]]

(***************************************************************************)
(* login (authenticateUser).  An address e is a positive number and -e is  *)
(* the same address written in the other letter case; eq() on a text       *)
(* column compares the strings as they are.                                *)
(***************************************************************************)
\* createHash('sha256').update(password).digest('hex')
sha256(password) == <<"sha256", password>>

authenticateUser_anyCase(us, input) ==
    LET found == SelectSeq(us, LAMBDA u : \/ u.email = input.email
                                          \/ u.email = 0 - input.email)
    IN  IF Len(found) = 0 THEN Null
        ELSE IF ~found[1].is_active THEN Null
        ELSE IF sha256(input.password) # found[1].password_hash THEN Null
        ELSE Object(found[1])

authenticateUser(us, input) ==
    LET found == SelectSeq(us, LAMBDA u : u.email = input.email)
    IN  IF Len(found) = 0 THEN Null
        ELSE IF ~found[1].is_active THEN Null
        ELSE IF sha256(input.password) # found[1].password_hash THEN Null
        ELSE Object([id |-> found[1].id,
                     email |-> found[1].email,
                     password_hash |-> found[1].password_hash,
                     role |-> found[1].role,
                     avatar_url |-> found[1].avatar_url,
                     is_active |-> found[1].is_active,
                     created_at |-> found[1].created_at,
                     updated_at |-> found[1].updated_at])

(***************************************************************************)
(* createCourse                                                            *)
(***************************************************************************)
createCourseTeacherCheck_noActive(teacher) ==
    IF Len(teacher) = 0 THEN "Teacher not found"
    ELSE IF teacher[1].role # "teacher" /\ teacher[1].role # "admin"
         THEN "Only teachers and admins can create courses"
    ELSE OK

createCourseTeacherCheck(teacher) ==
    IF Len(teacher) = 0 THEN "Teacher not found"
    ELSE IF teacher[1].role # "teacher" /\ teacher[1].role # "admin"
         THEN "Only teachers and admins can create courses"
    ELSE IF ~teacher[1].is_active THEN "Teacher account is not active"
    ELSE OK

\* A row of courses.  title and thumbnail_url are left out: they are
\* written and read exactly as description is (title without null).
createCourse(us, cs, input, t) ==
    LET e == createCourseTeacherCheck(selectById(us, input.teacher_id))
    IN  IF e # OK THEN [out |-> e, courses |-> cs]
        ELSE [out |-> OK,
              courses |-> Append(cs, [id |-> Len(cs) + 1,
                                      description |-> OrElse(input.description, Null),
                                      teacher_id |-> input.teacher_id,
                                      status |-> OrElse(input.status, Str("draft"))[2],
                                      created_at |-> t, updated_at |-> t])]

CourseNotFoundById == "Course with id not found"

updateCourse(cs, input, t) ==
    IF Len(selectById(cs, input.id)) = 0
    THEN [out |-> CourseNotFoundById, courses |-> cs]
    ELSE [out |-> OK,
          courses |-> [cs EXCEPT ![input.id] =
                          [@ EXCEPT
                             !.description = IF input.description = Undefined
                                             THEN @ ELSE input.description,
                             !.status = IF input.status = Undefined THEN @
                                        ELSE input.status[2],
                             !.updated_at = t]]]

(***************************************************************************)
(* enrollInCourse: three reads, each followed by its checks, then the      *)
(* insert.                                                                 *)
(***************************************************************************)
enrollStudentCheck(student) ==
    IF Len(student) = 0 THEN "Student not found"
    ELSE IF student[1].role # "student" THEN "User is not a student"
    ELSE IF ~student[1].is_active THEN "Student account is inactive"
    ELSE OK

enrollCourseCheck_anyStatus(course) ==
    IF Len(course) = 0 THEN "Course not found" ELSE OK

enrollCourseCheck(course) ==
    IF Len(course) = 0 THEN "Course not found"
    ELSE IF course[1].status # "published"
         THEN "Course is not available for enrollment"
    ELSE OK

enrollExistingCheck_never(existingEnrollment) == OK

enrollExistingCheck(existingEnrollment) ==
    IF Len(existingEnrollment) > 0
    THEN "Student is already enrolled in this course"
    ELSE OK

enrollInCourse_insertsFirst(us, cs, es, input) ==
    LET e1 == enrollStudentCheck(selectById(us, input.student_id))
        e2 == enrollCourseCheck(selectById(cs, input.course_id))
        e3 == enrollExistingCheck(
                  selectEnrollment(es, input.course_id, input.student_id))
    IN  IF e1 # OK THEN [out |-> e1, enrollments |-> es]
        ELSE IF e2 # OK THEN [out |-> e2, enrollments |-> es]
        ELSE [out |-> e3,
              enrollments |-> insertEnrollment(es, input.course_id,
                                               input.student_id)]

enrollInCourse(us, cs, es, input) ==
    LET e1 == enrollStudentCheck(selectById(us, input.student_id))
        e2 == enrollCourseCheck(selectById(cs, input.course_id))
        e3 == enrollExistingCheck(
                  selectEnrollment(es, input.course_id, input.student_id))
    IN  IF e1 # OK THEN [out |-> e1, enrollments |-> es]
        ELSE IF e2 # OK THEN [out |-> e2, enrollments |-> es]
        ELSE IF e3 # OK THEN [out |-> e3, enrollments |-> es]
        ELSE [out |-> OK,
              enrollments |-> insertEnrollment(es, input.course_id,
                                               input.student_id)]

(***************************************************************************)
(* createAssignment                                                        *)
(***************************************************************************)
\* A row of assignments.  max_score is a numeric(5,2) column, written as
\* the decimal text of the input number (in thousandths, as the scores
\* below are).
createAssignment(cs, as, input) ==
    IF Len(selectById(cs, input.course_id)) = 0
    THEN [out |-> "Course not found", assignments |-> as]
    ELSE [out |-> OK,
          assignments |-> Append(as, [id |-> Len(as) + 1,
                                      course_id |-> input.course_id,
                                      max_score |-> <<"numeric", (input.max_score + 5) \div 10>>,
                                      status |-> OrElse(input.status, Str("draft"))[2]])]

(***************************************************************************)
(* createAssignmentSubmission: three reads, each followed by its checks,   *)
(* then the insert.                                                        *)
(***************************************************************************)
\* db.select().from(assignmentSubmissionsTable).where(and(assignment_id, student_id))
selectSubmission(ss, assignment_id, student_id) ==
    SelectSeq(ss, LAMBDA r : r.assignment_id = assignment_id
                             /\ r.student_id = student_id)

submissionAssignmentCheck_anyStatus(assignmentQuery) ==
    IF Len(assignmentQuery) = 0 THEN "Assignment not found" ELSE OK

submissionAssignmentCheck(assignmentQuery) ==
    IF Len(assignmentQuery) = 0 THEN "Assignment not found"
    ELSE IF assignmentQuery[1].status # "published"
         THEN "Assignment is not published"
    ELSE OK

submissionEnrollmentCheck_never(enrollmentQuery) == OK

submissionEnrollmentCheck(enrollmentQuery) ==
    IF Len(enrollmentQuery) = 0 THEN "Student is not enrolled in the course"
    ELSE OK

submissionExistingCheck(existingSubmissionQuery) ==
    IF Len(existingSubmissionQuery) > 0
    THEN "Submission already exists for this assignment"
    ELSE OK

insertSubmission_submitted(ss, input, t) ==
    Append(ss, [id |-> Len(ss) + 1,
                assignment_id |-> input.assignment_id,
                student_id |-> input.student_id,
                submission_url |-> OrElse(input.submission_url, Null),
                submission_text |-> OrElse(input.submission_text, Null),
                score |-> Null,
                feedback |-> Null,
                status |-> "submitted",
                submitted_at |-> Null,
                graded_at |-> Null,
                updated_at |-> t])

\* The insert into assignment_submissions: no unique index on
\* (assignment_id, student_id); columns the statement leaves out take their
\* defaults (score, feedback, submitted_at, graded_at null; updated_at now).
insertSubmission(ss, input, t) ==
    Append(ss, [id |-> Len(ss) + 1,
                assignment_id |-> input.assignment_id,
                student_id |-> input.student_id,
                submission_url |-> OrElse(input.submission_url, Null),
                submission_text |-> OrElse(input.submission_text, Null),
                score |-> Null,
                feedback |-> Null,
                status |-> "draft",
                submitted_at |-> Null,
                graded_at |-> Null,
                updated_at |-> t])

createAssignmentSubmission(as, es, ss, input, t) ==
    LET assignmentQuery == selectById(as, input.assignment_id)
        e1 == submissionAssignmentCheck(assignmentQuery)
        e2 == submissionEnrollmentCheck(
                  selectEnrollment(es, assignmentQuery[1].course_id,
                                   input.student_id))
        e3 == submissionExistingCheck(
                  selectSubmission(ss, input.assignment_id, input.student_id))
    IN  IF e1 # OK THEN [out |-> e1, submissions |-> ss]
        ELSE IF e2 # OK THEN [out |-> e2, submissions |-> ss]
        ELSE IF e3 # OK THEN [out |-> e3, submissions |-> ss]
        ELSE [out |-> OK, submissions |-> insertSubmission(ss, input, t)]

(***************************************************************************)
(* gradeAssignmentSubmission.  A score is a JavaScript number, held here    *)
(* in thousandths (87330 is 87.33).  The handler writes its decimal text   *)
(* into a numeric(5,2) column, which rounds the text to hundredths (half   *)
(* away from zero) and rejects 1000.00 and above; the column is read back  *)
(* as text and parsed.                                                     *)
(***************************************************************************)
NumericOverflow == "numeric field overflow"

\* input.score.toString(): the decimal text of the number.
numberToString(n) == <<"text", n>>

\* numeric(5,2): the stored value in hundredths, or the overflow error.
numericColumn(text) ==
    LET hundredths == (text[2] + 5) \div 10
    IN  IF hundredths >= 100000 THEN NumericOverflow
        ELSE <<"numeric", hundredths>>

\* submission.score ? parseFloat(submission.score) : null.  The column's
\* text ("0.00" included) is a non-empty string, hence truthy.
scoreToNumber(score) ==
    IF score = Null THEN Null ELSE Num(score[2] * 10)

submissionNotFound == "Assignment submission with id not found"

gradeAssignmentSubmission_keepsStatus(ss, input, t) ==
    LET stored == numericColumn(numberToString(input.score))
    IN  IF Len(selectById(ss, input.id)) = 0
        THEN [out |-> submissionNotFound, submissions |-> ss, score |-> Null]
        ELSE IF stored = NumericOverflow
        THEN [out |-> NumericOverflow, submissions |-> ss, score |-> Null]
        ELSE [out |-> OK,
              submissions |-> [ss EXCEPT ![input.id] =
                                 [@ EXCEPT !.score = stored,
                                           !.feedback = OrElse(input.feedback, Null),
                                           !.graded_at = Num(t),
                                           !.updated_at = t]],
              score |-> scoreToNumber(stored)]

gradeAssignmentSubmission_resetsStatus(ss, input, t) ==
    LET stored == numericColumn(numberToString(input.score))
    IN  IF Len(selectById(ss, input.id)) = 0
        THEN [out |-> submissionNotFound, submissions |-> ss, score |-> Null]
        ELSE IF stored = NumericOverflow
        THEN [out |-> NumericOverflow, submissions |-> ss, score |-> Null]
        ELSE [out |-> OK,
              submissions |-> [ss EXCEPT ![input.id] =
                                 [@ EXCEPT !.score = stored,
                                           !.feedback = OrElse(input.feedback, Null),
                                           !.status = IF @ = "graded" THEN "draft"
                                                      ELSE "graded",
                                           !.graded_at = Num(t),
                                           !.updated_at = t]],
              score |-> scoreToNumber(stored)]

gradeAssignmentSubmission(ss, input, t) ==
    LET stored == numericColumn(numberToString(input.score))
    IN  IF Len(selectById(ss, input.id)) = 0
        THEN [out |-> submissionNotFound, submissions |-> ss, score |-> Null]
        ELSE IF stored = NumericOverflow
        THEN [out |-> NumericOverflow, submissions |-> ss, score |-> Null]
        ELSE [out |-> OK,
              submissions |-> [ss EXCEPT ![input.id] =
                                 [@ EXCEPT !.score = stored,
                                           !.feedback = OrElse(input.feedback, Null),
                                           !.status = "graded",
                                           !.graded_at = Num(t),
                                           !.updated_at = t]],
              score |-> scoreToNumber(stored)]

(***************************************************************************)
(* createPortfolioProject                                                  *)
(***************************************************************************)
portfolioStudentCheck(student) ==
    IF Len(student) = 0 THEN "Student not found"
    ELSE IF student[1].role # "student"
         THEN "User must be a student to create portfolio projects"
    ELSE IF ~student[1].is_active THEN "Student account is not active"
    ELSE OK

createPortfolioProject_orElse(us, ps, input, t) ==
    LET e == portfolioStudentCheck(selectById(us, input.student_id))
    IN  IF e # OK THEN [out |-> e, projects |-> ps]
        ELSE [out |-> OK,
              projects |-> Append(ps, [id |-> Len(ps) + 1,
                                       student_id |-> input.student_id,
                                       is_public |-> OrElse(input.is_public,
                                                            Bool(TRUE))[2],
                                       created_at |-> t])]

createPortfolioProject(us, ps, input, t) ==
    LET e == portfolioStudentCheck(selectById(us, input.student_id))
    IN  IF e # OK THEN [out |-> e, projects |-> ps]
        ELSE [out |-> OK,
              projects |-> Append(ps, [id |-> Len(ps) + 1,
                                       student_id |-> input.student_id,
                                       is_public |-> Coalesce(input.is_public,
                                                              Bool(FALSE))[2],
                                       created_at |-> t])]

(***************************************************************************)
(* getCourses.  The statement has no ORDER BY; the rows are taken in the   *)
(* table's order, and nothing below depends on the order.                  *)
(***************************************************************************)
getCourses_all(cs) == cs

getCourses(cs) == SelectSeq(cs, LAMBDA c : c.status = "published")

\* getUserCourses.  For a student the courses are joined to the enrollment
\* rows; a join yields one row per matching pair, taken here in the order of
\* the enrollment rows (courses.id is the primary key, so an enrollment row
\* matches at most one course).
getUserCourses_catalogueForStudent(cs, es, input) ==
    IF input.role = "student"
    THEN SelectSeq(cs, LAMBDA c : c.status = "published")
    ELSE IF input.role = "teacher"
    THEN SelectSeq(cs, LAMBDA c : c.teacher_id = input.user_id)
    ELSE IF input.role = "admin" THEN cs
    ELSE <<>>

getUserCourses(cs, es, input) ==
    IF input.role = "student"
    THEN LET results == SelectSeq(es, LAMBDA e : /\ e.course_id \in DOMAIN cs
                                                  /\ e.student_id = input.user_id)
         IN  [k \in DOMAIN results |-> cs[results[k].course_id]]
    ELSE IF input.role = "teacher"
    THEN SelectSeq(cs, LAMBDA c : c.teacher_id = input.user_id)
    ELSE IF input.role = "admin" THEN cs
    ELSE <<>>

(***************************************************************************)
(* getStudentPortfolio, getPublicPortfolioProjects.  ORDER BY created_at   *)
(* DESC fixes the order of rows up to rows of equal created_at, which the  *)
(* store may return in either order: a query has a set of possible         *)
(* results.                                                                *)
(***************************************************************************)
orderByDescCreatedAt(rows) ==
    LET n == Len(rows)
        orders == {f \in [1..n -> 1..n] :
                     /\ \A j, k \in 1..n : f[j] = f[k] => j = k
                     /\ \A j, k \in 1..n :
                           j < k => rows[f[j]].created_at >= rows[f[k]].created_at}
    IN  {[k \in 1..n |-> rows[f[k]]] : f \in orders}

getStudentPortfolio(ps, input) ==
    orderByDescCreatedAt(
        SelectSeq(ps, LAMBDA q : q.student_id = input.student_id))

getPublicPortfolioProjects_all(ps) == orderByDescCreatedAt(ps)

getPublicPortfolioProjects(ps) ==
    orderByDescCreatedAt(SelectSeq(ps, LAMBDA q : q.is_public = TRUE))

(***************************************************************************)
(* getDashboardData: counts per role.  count() over a join counts the      *)
(* matching pairs of rows.                                                 *)
(***************************************************************************)
count(rows) == Len(rows)

\* The pairs of row positions an inner join ranges over.
innerJoin(left, right) == (DOMAIN left) \X (DOMAIN right)

getAdminDashboardData_activeOnly(us, cs) ==
    [totalUsers |-> count(SelectSeq(us, LAMBDA u : u.is_active)),
     totalCourses |-> count(cs),
     totalStudents |-> count(SelectSeq(us, LAMBDA u : u.role = "student")),
     totalTeachers |-> count(SelectSeq(us, LAMBDA u : u.role = "teacher"))]

\* The four count queries of getAdminDashboardData, in the order it awaits
\* them.
totalUsersResult(us) == count(us)
totalCoursesResult(cs) == count(cs)
totalStudentsResult(us) == count(SelectSeq(us, LAMBDA u : u.role = "student"))
totalTeachersResult(us) == count(SelectSeq(us, LAMBDA u : u.role = "teacher"))

getAdminDashboardData(us, cs) ==
    [totalUsers |-> totalUsersResult(us),
     totalCourses |-> totalCoursesResult(cs),
     totalStudents |-> totalStudentsResult(us),
     totalTeachers |-> totalTeachersResult(us)]

getTeacherDashboardData_allCourses(cs, as, ss, userId) ==
    [teachingCourses |-> count(SelectSeq(cs, LAMBDA c : c.teacher_id = userId)),
     totalAssignments |->
         Cardinality({p \in innerJoin(as, cs) : as[p[1]].course_id = cs[p[2]].id}),
     pendingSubmissions |->
         Cardinality({t \in (DOMAIN ss) \X (DOMAIN as) \X (DOMAIN cs) :
                        /\ ss[t[1]].assignment_id = as[t[2]].id
                        /\ as[t[2]].course_id = cs[t[3]].id
                        /\ cs[t[3]].teacher_id = userId
                        /\ ss[t[1]].status = "submitted"})]

getTeacherDashboardData(cs, as, ss, userId) ==
    [teachingCourses |-> count(SelectSeq(cs, LAMBDA c : c.teacher_id = userId)),
     totalAssignments |->
         Cardinality({p \in innerJoin(as, cs) :
                        /\ as[p[1]].course_id = cs[p[2]].id
                        /\ cs[p[2]].teacher_id = userId}),
     pendingSubmissions |->
         Cardinality({t \in (DOMAIN ss) \X (DOMAIN as) \X (DOMAIN cs) :
                        /\ ss[t[1]].assignment_id = as[t[2]].id
                        /\ as[t[2]].course_id = cs[t[3]].id
                        /\ cs[t[3]].teacher_id = userId
                        /\ ss[t[1]].status = "submitted"})]

getStudentDashboardData(es, as, ss, ps, userId) ==
    [enrolledCourses |-> count(SelectSeq(es, LAMBDA e : e.student_id = userId)),
     activeAssignments |->
         Cardinality({p \in innerJoin(as, es) :
                        /\ as[p[1]].course_id = es[p[2]].course_id
                        /\ es[p[2]].student_id = userId
                        /\ as[p[1]].status = "published"}),
     completedAssignments |->
         count(SelectSeq(ss, LAMBDA r : /\ r.student_id = userId
                                        /\ r.status = "graded")),
     portfolioProjects |-> count(SelectSeq(ps, LAMBDA q : q.student_id = userId))]

getDashboardData(us, cs, es, as, ss, ps, userId, role) ==
    IF role = "admin" THEN getAdminDashboardData(us, cs)
    ELSE IF role = "teacher" THEN getTeacherDashboardData(cs, as, ss, userId)
    ELSE IF role = "student"
    THEN getStudentDashboardData(es, as, ss, ps, userId)
    ELSE <<>>

(***************************************************************************)
(* Inputs of the procedures, as the router's input schemas admit them.     *)
(***************************************************************************)
UserIds == 1..MaxUsers
CourseIds == 1..MaxCourses
AssignmentIds == 1..MaxAssignments
SubmissionIds == 1..MaxSubmissions
Scores == {0, 87330, 87335, 1000000}
Optional(S) == {Undefined} \cup S

Passwords == {"password123", "password456"}

LoginInputs == [email : Emails \cup {0 - e : e \in Emails}, password : Passwords]
CreateUserInputs ==
    [email : Emails, password : {"password123"}, role : userRoleEnum,
     avatar_url : {Undefined}]
\* Updates that name no field, one field, or all of them.
UpdateUserInputs ==
    {i \in [id : UserIds, email : Optional({Str(e) : e \in Emails}),
            avatar_url : {Undefined, Null, Str("a.png")},
            is_active : Optional({Bool(TRUE), Bool(FALSE)})] :
        \/ Cardinality({f \in {"email", "avatar_url", "is_active"} :
                           i[f] # Undefined}) <= 1
        \/ (i.email # Undefined /\ i.avatar_url = Str("a.png")
               /\ i.is_active = Bool(FALSE))}
CreateCourseInputs ==
    [teacher_id : UserIds, description : {Undefined},
     status : Optional({Str(x) : x \in courseStatusEnum})]
UpdateCourseInputs ==
    [id : CourseIds, description : {Undefined, Null, Str("text")},
     status : Optional({Str(x) : x \in courseStatusEnum})]
EnrollInCourseInputs == [course_id : CourseIds, student_id : UserIds]
\* max_score is 50, as in the assignment tests.
CreateAssignmentInputs ==
    [course_id : CourseIds, max_score : {50000},
     status : Optional({Str(x) : x \in assignmentStatusEnum})]
SubmissionContents ==
    {<<Undefined, Undefined>>, <<Str("u"), Null>>, <<Str(""), Str("t")>>}
CreateAssignmentSubmissionInputs ==
    {[assignment_id |-> a, student_id |-> s,
      submission_url |-> c[1], submission_text |-> c[2]] :
        a \in AssignmentIds, s \in UserIds, c \in SubmissionContents}
GradeAssignmentSubmissionInputs ==
    [id : SubmissionIds, score : Scores,
     feedback : {Undefined, Str(""), Str("good")}]
\* The ids of the users that can exist and one that never does.
QueryUserIds == 1..(MaxUsers + 1)
GetDashboardDataInputs == [userId : QueryUserIds, role : userRoleEnum]
\* The handler is also called with a role outside the enumeration.
GetUserCoursesInputs ==
    [user_id : QueryUserIds, role : userRoleEnum \cup {"invalid_role"}]
GetStudentPortfolioInputs == [student_id : QueryUserIds]
CreatePortfolioProjectInputs ==
    [student_id : UserIds, is_public : Optional({Bool(TRUE), Bool(FALSE)})]

(***************************************************************************)
(* The store after construction, and one action per procedure call.  last  *)
(* is the latest call: the procedure, its input and its outcome (OK or the *)
(* message of the error thrown).                                           *)
(***************************************************************************)
Procs == 1..NumProcs

Init ==
    /\ users = <<>>
    /\ courses = <<>>
    /\ enrollments = <<>>
    /\ assignments = <<>>
    /\ submissions = <<>>
    /\ projects = <<>>
    /\ now = 0
    /\ last = [op |-> "none", input |-> <<>>, out |-> OK]
    /\ pc = [p \in Procs |-> "idle"]
    /\ req = [p \in Procs |-> <<>>]

Call(op, input, out) == [op |-> op, input |-> input, out |-> out]

Tick ==
    /\ now < MaxTime
    /\ now' = now + 1
    /\ UNCHANGED <<store, last, pc, req>>

CreateUser ==
    \E input \in CreateUserInputs :
        LET r == createUser(users, input, now)
        IN  /\ Len(r.users) <= MaxUsers
            /\ users' = r.users
            /\ last' = Call("createUser", input, r.out)
            /\ UNCHANGED <<courses, enrollments, assignments, submissions,
                           projects, now, pc, req>>

UpdateUser ==
    \E input \in UpdateUserInputs :
        LET r == updateUser(users, input, now)
        IN  /\ users' = r.users
            /\ last' = Call("updateUser", input, r.out)
            /\ UNCHANGED <<courses, enrollments, assignments, submissions,
                           projects, now, pc, req>>

CreateCourse ==
    \E input \in CreateCourseInputs :
        LET r == createCourse(users, courses, input, now)
        IN  /\ Len(r.courses) <= MaxCourses
            /\ courses' = r.courses
            /\ last' = Call("createCourse", input, r.out)
            /\ UNCHANGED <<users, enrollments, assignments, submissions,
                           projects, now, pc, req>>

UpdateCourse ==
    \E input \in UpdateCourseInputs :
        LET r == updateCourse(courses, input, now)
        IN  /\ courses' = r.courses
            /\ last' = Call("updateCourse", input, r.out)
            /\ UNCHANGED <<users, enrollments, assignments, submissions,
                           projects, now, pc, req>>

EnrollInCourse ==
    \E input \in EnrollInCourseInputs :
        LET r == enrollInCourse(users, courses, enrollments, input)
        IN  /\ Len(r.enrollments) <= MaxEnrollments
            /\ enrollments' = r.enrollments
            /\ last' = Call("enrollInCourse", input, r.out)
            /\ UNCHANGED <<users, courses, assignments, submissions,
                           projects, now, pc, req>>

CreateAssignment ==
    \E input \in CreateAssignmentInputs :
        LET r == createAssignment(courses, assignments, input)
        IN  /\ Len(r.assignments) <= MaxAssignments
            /\ assignments' = r.assignments
            /\ last' = Call("createAssignment", input, r.out)
            /\ UNCHANGED <<users, courses, enrollments, submissions,
                           projects, now, pc, req>>

CreateAssignmentSubmission ==
    \E input \in CreateAssignmentSubmissionInputs :
        LET r == createAssignmentSubmission(assignments, enrollments,
                                            submissions, input, now)
        IN  /\ Len(r.submissions) <= MaxSubmissions
            /\ submissions' = r.submissions
            /\ last' = Call("createAssignmentSubmission", input, r.out)
            /\ UNCHANGED <<users, courses, enrollments, assignments,
                           projects, now, pc, req>>

GradeAssignmentSubmission ==
    \E input \in GradeAssignmentSubmissionInputs :
        LET r == gradeAssignmentSubmission(submissions, input, now)
        IN  /\ submissions' = r.submissions
            /\ last' = [Call("gradeAssignmentSubmission", input, r.out)
                          EXCEPT !.out = <<r.out, r.score>>]
            /\ UNCHANGED <<users, courses, enrollments, assignments,
                           projects, now, pc, req>>

CreatePortfolioProject ==
    \E input \in CreatePortfolioProjectInputs :
        LET r == createPortfolioProject(users, projects, input, now)
        IN  /\ Len(r.projects) <= MaxProjects
            /\ projects' = r.projects
            /\ last' = Call("createPortfolioProject", input, r.out)
            /\ UNCHANGED <<users, courses, enrollments, assignments,
                           submissions, now, pc, req>>

GetCourses ==
    /\ last' = Call("getCourses", <<>>, getCourses(courses))
    /\ UNCHANGED <<store, now, pc, req>>

GetUserCourses ==
    \E input \in GetUserCoursesInputs :
        /\ last' = Call("getUserCourses", input,
                        getUserCourses(courses, enrollments, input))
        /\ UNCHANGED <<store, now, pc, req>>

GetDashboardData ==
    \E input \in GetDashboardDataInputs :
        /\ last' = Call("getDashboardData", input,
                        getDashboardData(users, courses, enrollments,
                                         assignments, submissions, projects,
                                         input.userId, input.role))
        /\ UNCHANGED <<store, now, pc, req>>

GetStudentPortfolio ==
    \E input \in GetStudentPortfolioInputs :
        \E results \in getStudentPortfolio(projects, input) :
            /\ last' = Call("getStudentPortfolio", input, results)
            /\ UNCHANGED <<store, now, pc, req>>

GetPublicPortfolioProjects ==
    \E results \in getPublicPortfolioProjects(projects) :
        /\ last' = Call("getPublicPortfolioProjects", <<>>, results)
        /\ UNCHANGED <<store, now, pc, req>>

Login ==
    \E input \in LoginInputs :
        /\ last' = Call("login", input, authenticateUser(users, input))
        /\ UNCHANGED <<store, now, pc, req>>

Next ==
    \/ Tick
    \/ CreateUser
    \/ UpdateUser
    \/ CreateCourse
    \/ UpdateCourse
    \/ EnrollInCourse
    \/ CreateAssignment
    \/ CreateAssignmentSubmission
    \/ GradeAssignmentSubmission
    \/ CreatePortfolioProject
    \/ GetCourses
    \/ GetUserCourses
    \/ GetDashboardData
    \/ GetStudentPortfolio
    \/ GetPublicPortfolioProjects
    \/ Login

Spec == Init /\ [][Next]_vars

(***************************************************************************)
(* The specifications the properties are checked under.  Each takes the    *)
(* procedures that write the tables its properties read or that the        *)
(* procedures under study read; the procedures left out write none of      *)
(* those tables.                                                           *)
(***************************************************************************)
\* Users, courses and enrollments.
NextEnroll ==
    \/ CreateUser
    \/ UpdateUser
    \/ CreateCourse
    \/ EnrollInCourse

SpecEnroll == Init /\ [][NextEnroll]_vars

\* Users and portfolio projects.
NextPortfolio ==
    \/ CreateUser
    \/ UpdateUser
    \/ CreatePortfolioProject

SpecPortfolio == Init /\ [][NextPortfolio]_vars

\* Assignments and submissions, with the users, courses and enrollments
\* they rest on.
NextSubmit ==
    \/ Tick
    \/ CreateUser
    \/ CreateCourse
    \/ EnrollInCourse
    \/ CreateAssignment
    \/ CreateAssignmentSubmission
    \/ GradeAssignmentSubmission

SpecSubmit == Init /\ [][NextSubmit]_vars

(***************************************************************************)
(* Concurrent requests.  Each process serves one call of enrollInCourse or *)
(* createAssignmentSubmission; every awaited statement is a step of its    *)
(* own against the shared store, with no lock and no transaction around    *)
(* them.  req[p] holds the call's input, what it has read so far and, once *)
(* it has returned, its outcome.                                           *)
(***************************************************************************)
Return(p, out) ==
    /\ pc' = [pc EXCEPT ![p] = "done"]
    /\ req' = [req EXCEPT ![p] = [@ EXCEPT !.out = out]]

Goto(p, label) ==
    /\ pc' = [pc EXCEPT ![p] = label]
    /\ UNCHANGED req

EnrollReadStudent(p) ==
    /\ pc[p] = "idle"
    /\ \E input \in EnrollInCourseInputs :
          LET e == enrollStudentCheck(selectById(users, input.student_id))
              r == [op |-> "enrollInCourse", input |-> input, out |-> e]
          IN  /\ req' = [req EXCEPT ![p] = r]
              /\ pc' = [pc EXCEPT ![p] = IF e = OK THEN "enroll_course"
                                          ELSE "done"]
    /\ UNCHANGED <<store, now, last>>

EnrollReadCourse(p) ==
    /\ pc[p] = "enroll_course"
    /\ LET e == enrollCourseCheck(selectById(courses, req[p].input.course_id))
       IN  IF e = OK THEN Goto(p, "enroll_existing") ELSE Return(p, e)
    /\ UNCHANGED <<store, now, last>>

EnrollReadExisting(p) ==
    /\ pc[p] = "enroll_existing"
    /\ LET e == enrollExistingCheck(
                    selectEnrollment(enrollments, req[p].input.course_id,
                                     req[p].input.student_id))
       IN  IF e = OK THEN Goto(p, "enroll_insert") ELSE Return(p, e)
    /\ UNCHANGED <<store, now, last>>

EnrollInsert(p) ==
    /\ pc[p] = "enroll_insert"
    /\ enrollments' = insertEnrollment(enrollments, req[p].input.course_id,
                                       req[p].input.student_id)
    /\ Return(p, OK)
    /\ UNCHANGED <<users, courses, assignments, submissions, projects, now,
                   last>>

SubmitReadAssignment(p) ==
    /\ pc[p] = "idle"
    /\ \E input \in CreateAssignmentSubmissionInputs :
          LET q == selectById(assignments, input.assignment_id)
              e == submissionAssignmentCheck(q)
              r == [op |-> "createAssignmentSubmission", input |-> input,
                    out |-> e,
                    course_id |-> IF e = OK THEN q[1].course_id ELSE 0]
          IN  /\ req' = [req EXCEPT ![p] = r]
              /\ pc' = [pc EXCEPT ![p] = IF e = OK THEN "submit_enrollment"
                                          ELSE "done"]
    /\ UNCHANGED <<store, now, last>>

SubmitReadEnrollment(p) ==
    /\ pc[p] = "submit_enrollment"
    /\ LET e == submissionEnrollmentCheck(
                    selectEnrollment(enrollments, req[p].course_id,
                                     req[p].input.student_id))
       IN  IF e = OK THEN Goto(p, "submit_existing") ELSE Return(p, e)
    /\ UNCHANGED <<store, now, last>>

SubmitReadExisting(p) ==
    /\ pc[p] = "submit_existing"
    /\ LET e == submissionExistingCheck(
                    selectSubmission(submissions, req[p].input.assignment_id,
                                     req[p].input.student_id))
       IN  IF e = OK THEN Goto(p, "submit_insert") ELSE Return(p, e)
    /\ UNCHANGED <<store, now, last>>

SubmitInsert(p) ==
    /\ pc[p] = "submit_insert"
    /\ submissions' = insertSubmission(submissions, req[p].input, now)
    /\ Return(p, OK)
    /\ UNCHANGED <<users, courses, enrollments, assignments, projects, now,
                   last>>

\* getDashboardData(_, 'admin') as a concurrent request: each of its four
\* count queries is a step of its own.  req[p].from and req[p].to are the
\* sizes of the users and courses tables at the call and at the return.
AdminCountUsers(p) ==
    /\ pc[p] = "idle"
    /\ \E input \in {i \in GetDashboardDataInputs : i.role = "admin"} :
          req' = [req EXCEPT ![p] =
                    [op |-> "getDashboardData", input |-> input,
                     from |-> <<Len(users), Len(courses)>>,
                     to |-> <<>>,
                     totalUsers |-> totalUsersResult(users),
                     totalCourses |-> 0, totalStudents |-> 0,
                     out |-> <<>>]]
    /\ pc' = [pc EXCEPT ![p] = "admin_courses"]
    /\ UNCHANGED <<store, now, last>>

AdminCountCourses(p) ==
    /\ pc[p] = "admin_courses"
    /\ req' = [req EXCEPT ![p] =
                 [@ EXCEPT !.totalCourses = totalCoursesResult(courses)]]
    /\ pc' = [pc EXCEPT ![p] = "admin_students"]
    /\ UNCHANGED <<store, now, last>>

AdminCountStudents(p) ==
    /\ pc[p] = "admin_students"
    /\ req' = [req EXCEPT ![p] =
                 [@ EXCEPT !.totalStudents = totalStudentsResult(users)]]
    /\ pc' = [pc EXCEPT ![p] = "admin_teachers"]
    /\ UNCHANGED <<store, now, last>>

AdminCountTeachers(p) ==
    /\ pc[p] = "admin_teachers"
    /\ req' = [req EXCEPT ![p] =
                 [@ EXCEPT !.to = <<Len(users), Len(courses)>>,
                           !.out = [totalUsers |-> req[p].totalUsers,
                                    totalCourses |-> req[p].totalCourses,
                                    totalStudents |-> req[p].totalStudents,
                                    totalTeachers |->
                                        totalTeachersResult(users)]]]
    /\ pc' = [pc EXCEPT ![p] = "done"]
    /\ UNCHANGED <<store, now, last>>

(***************************************************************************)
(* The CourseManagement view of a logged-in user.  A process that shows    *)
(* the view holds in req[p] the user it was given, the course list it last *)
(* loaded and the outcome of its last enroll click.                        *)
(***************************************************************************)
\* loadCourses: an admin gets getCourses, the others getUserCourses.
loadCourses(cs, es, user) ==
    IF user.role = "admin" THEN getCourses(cs)
    ELSE getUserCourses(cs, es, [user_id |-> user.id, role |-> user.role])

\* The view is mounted for a user and loads its courses.
ViewLoadCourses(p) ==
    /\ pc[p] = "idle"
    /\ \E u \in DOMAIN users :
          req' = [req EXCEPT ![p] =
                    [op |-> "CourseManagement",
                     user |-> [id |-> users[u].id, role |-> users[u].role],
                     courses |-> loadCourses(courses, enrollments, users[u]),
                     out |-> <<>>]]
    /\ pc' = [pc EXCEPT ![p] = "mounted"]
    /\ UNCHANGED <<store, now, last>>

\* handleEnrollInCourse: the enroll button, shown to a student on every
\* listed course whose status is published; the list is loaded again when
\* the call succeeds.
ViewEnrollInCourse(p) ==
    /\ pc[p] = "mounted"
    /\ req[p].user.role = "student"
    /\ \E k \in DOMAIN req[p].courses :
          /\ req[p].courses[k].status = "published"
          /\ LET input == [course_id |-> req[p].courses[k].id,
                           student_id |-> req[p].user.id]
                 r == enrollInCourse(users, courses, enrollments, input)
             IN  /\ Len(r.enrollments) <= MaxEnrollments
                 /\ enrollments' = r.enrollments
                 /\ last' = Call("enrollInCourse", input, r.out)
                 /\ req' = [req EXCEPT ![p] =
                              [@ EXCEPT
                                 !.courses =
                                    IF r.out = OK
                                    THEN loadCourses(courses, r.enrollments,
                                                     req[p].user)
                                    ELSE @,
                                 !.out = <<input, r.out>>]]
    /\ UNCHANGED <<users, courses, assignments, submissions, projects, now, pc>>

NextEnrollConc ==
    \/ CreateUser
    \/ CreateCourse
    \/ \E p \in Procs : EnrollReadStudent(p)
    \/ \E p \in Procs : EnrollReadCourse(p)
    \/ \E p \in Procs : EnrollReadExisting(p)
    \/ \E p \in Procs : EnrollInsert(p)

SpecEnrollConc == Init /\ [][NextEnrollConc]_vars

\* The store the submission tests build before each case: a teacher, a
\* student, a published course of the teacher and the student's enrollment
\* in it, each the result of the procedure that creates it.
fixtureTeacher ==
    createUser(<<>>, [email |-> 1, password |-> "password123",
                      role |-> "teacher", avatar_url |-> Undefined], 0).users

fixtureUsers ==
    createUser(fixtureTeacher,
               [email |-> 2, password |-> "password123", role |-> "student",
                avatar_url |-> Undefined], 0).users

fixtureCourses ==
    createCourse(fixtureUsers, <<>>,
                 [teacher_id |-> 1, description |-> Undefined,
                  status |-> Str("published")], 0).courses

fixtureEnrollments ==
    enrollInCourse(fixtureUsers, fixtureCourses, <<>>,
                   [course_id |-> 1, student_id |-> 2]).enrollments

InitSubmitConc ==
    /\ users = fixtureUsers
    /\ courses = fixtureCourses
    /\ enrollments = fixtureEnrollments
    /\ assignments = <<>>
    /\ submissions = <<>>
    /\ projects = <<>>
    /\ now = 0
    /\ last = [op |-> "none", input |-> <<>>, out |-> OK]
    /\ pc = [p \in Procs |-> "idle"]
    /\ req = [p \in Procs |-> <<>>]

NextSubmitConc ==
    \/ CreateAssignment
    \/ \E p \in Procs : SubmitReadAssignment(p)
    \/ \E p \in Procs : SubmitReadEnrollment(p)
    \/ \E p \in Procs : SubmitReadExisting(p)
    \/ \E p \in Procs : SubmitInsert(p)

SpecSubmitConc == InitSubmitConc /\ [][NextSubmitConc]_vars

\* The stores the update tests build: the teacher with two courses, one
\* published and one draft, or the teacher and the student with the
\* published course.
fixtureTwoCourses ==
    createCourse(fixtureUsers, fixtureCourses,
                 [teacher_id |-> 1, description |-> Undefined,
                  status |-> Undefined], 0).courses

InitUpdate ==
    /\ \E f \in {<<fixtureTeacher, fixtureTwoCourses>>,
                 <<fixtureUsers, fixtureCourses>>} :
          users = f[1] /\ courses = f[2]
    /\ enrollments = <<>>
    /\ assignments = <<>>
    /\ submissions = <<>>
    /\ projects = <<>>
    /\ now = 0
    /\ last = [op |-> "none", input |-> <<>>, out |-> OK]
    /\ pc = [p \in Procs |-> "idle"]
    /\ req = [p \in Procs |-> <<>>]

\* Updates of users and courses over time.
NextUpdate ==
    \/ Tick
    \/ UpdateUser
    \/ UpdateCourse

SpecUpdate == InitUpdate /\ [][NextUpdate]_vars

\* The platform-wide counts as users and courses are created and users
\* updated.
NextAdmin ==
    \/ CreateUser
    \/ UpdateUser
    \/ CreateCourse
    \/ GetDashboardData

SpecAdmin == Init /\ [][NextAdmin]_vars

\* A teacher's counts as courses, assignments and submissions are created
\* and graded.
NextTeacher ==
    \/ CreateCourse
    \/ CreateAssignment
    \/ CreateAssignmentSubmission
    \/ GradeAssignmentSubmission
    \/ GetDashboardData

SpecTeacher == InitSubmitConc /\ [][NextTeacher]_vars

\* Concurrent enrollInCourse calls of the student of the store above, and
\* what the student then sees: the dashboard and the list of courses.
InitStudent ==
    /\ users = fixtureUsers
    /\ courses = fixtureCourses
    /\ enrollments = <<>>
    /\ assignments = <<>>
    /\ submissions = <<>>
    /\ projects = <<>>
    /\ now = 0
    /\ last = [op |-> "none", input |-> <<>>, out |-> OK]
    /\ pc = [p \in Procs |-> "idle"]
    /\ req = [p \in Procs |-> <<>>]

NextStudentConc ==
    \/ \E p \in Procs : EnrollReadStudent(p)
    \/ \E p \in Procs : EnrollReadCourse(p)
    \/ \E p \in Procs : EnrollReadExisting(p)
    \/ \E p \in Procs : EnrollInsert(p)
    \/ CreateAssignment
    \/ GetDashboardData
    \/ GetUserCourses

SpecStudentConc == InitStudent /\ [][NextStudentConc]_vars

\* The same views when the calls run one at a time.
NextStudent ==
    \/ EnrollInCourse
    \/ CreateAssignment
    \/ CreateAssignmentSubmission
    \/ GradeAssignmentSubmission
    \/ CreatePortfolioProject
    \/ GetDashboardData
    \/ GetUserCourses

SpecStudent == InitStudent /\ [][NextStudent]_vars

\* Portfolio projects over time and the two views of them.
NextShowcase ==
    \/ Tick
    \/ CreateUser
    \/ CreatePortfolioProject
    \/ GetStudentPortfolio
    \/ GetPublicPortfolioProjects

SpecShowcase == Init /\ [][NextShowcase]_vars

\* The users the login tests insert: an active student and an inactive
\* teacher, their password_hash the SHA-256 digest of their passwords.
seededUsers ==
    <<[id |-> 1, email |-> 1, password_hash |-> sha256("password123"),
       role |-> "student", avatar_url |-> Null, is_active |-> TRUE,
       created_at |-> 0, updated_at |-> 0],
      [id |-> 2, email |-> 2, password_hash |-> sha256("password456"),
       role |-> "teacher", avatar_url |-> Str("a.png"), is_active |-> FALSE,
       created_at |-> 0, updated_at |-> 0]>>

\* Logins against the seeded users or against users createUser has made, as
\* the users are updated.
InitLogin ==
    /\ users \in {seededUsers, fixtureUsers}
    /\ courses = <<>>
    /\ enrollments = <<>>
    /\ assignments = <<>>
    /\ submissions = <<>>
    /\ projects = <<>>
    /\ now = 0
    /\ last = [op |-> "none", input |-> <<>>, out |-> OK]
    /\ pc = [p \in Procs |-> "idle"]
    /\ req = [p \in Procs |-> <<>>]

NextLogin ==
    \/ UpdateUser
    \/ Login

SpecLogin == InitLogin /\ [][NextLogin]_vars

\* Submissions of the enrolled student created and graded over time.
NextGrade ==
    \/ Tick
    \/ CreateAssignment
    \/ CreateAssignmentSubmission
    \/ GradeAssignmentSubmission

SpecGrade == InitSubmitConc /\ [][NextGrade]_vars

\* Courses created and updated while their teachers are updated.
InitStaff ==
    /\ users = fixtureUsers
    /\ courses = <<>>
    /\ enrollments = <<>>
    /\ assignments = <<>>
    /\ submissions = <<>>
    /\ projects = <<>>
    /\ now = 0
    /\ last = [op |-> "none", input |-> <<>>, out |-> OK]
    /\ pc = [p \in Procs |-> "idle"]
    /\ req = [p \in Procs |-> <<>>]

NextStaff ==
    \/ UpdateUser
    \/ CreateCourse
    \/ UpdateCourse

SpecStaff == InitStaff /\ [][NextStaff]_vars

\* enrollInCourse calls in flight while the student and the course are
\* updated: an UPDATE is one statement and lands between any two awaited
\* statements of a call.
NextEnrollRace ==
    \/ UpdateUser
    \/ UpdateCourse
    \/ \E p \in Procs : EnrollReadStudent(p)
    \/ \E p \in Procs : EnrollReadCourse(p)
    \/ \E p \in Procs : EnrollReadExisting(p)
    \/ \E p \in Procs : EnrollInsert(p)

SpecEnrollRace == InitStudent /\ [][NextEnrollRace]_vars

\* Submissions of the enrolled student while the users are updated.
NextSubmitUser ==
    \/ UpdateUser
    \/ CreateAssignment
    \/ CreateAssignmentSubmission

SpecSubmitUser == InitSubmitConc /\ [][NextSubmitUser]_vars

\* Admin dashboards in flight while users are created.
NextAdminConc ==
    \/ CreateUser
    \/ \E p \in Procs : AdminCountUsers(p)
    \/ \E p \in Procs : AdminCountCourses(p)
    \/ \E p \in Procs : AdminCountStudents(p)
    \/ \E p \in Procs : AdminCountTeachers(p)

SpecAdminConc == Init /\ [][NextAdminConc]_vars

\* Logins of the users createUser has made, as they are updated.
NextRegister ==
    \/ CreateUser
    \/ UpdateUser
    \/ Login

SpecRegister == Init /\ [][NextRegister]_vars

\* CourseManagement views open while the student enrolls and the course is
\* updated.
NextView ==
    \/ UpdateCourse
    \/ EnrollInCourse
    \/ \E p \in Procs : ViewLoadCourses(p)
    \/ \E p \in Procs : ViewEnrollInCourse(p)

SpecView == InitStudent /\ [][NextView]_vars

\* The catalogue of published courses as courses are created and updated.
NextCatalogue ==
    \/ Tick
    \/ CreateCourse
    \/ UpdateCourse
    \/ GetCourses

SpecCatalogue == InitSubmitConc /\ [][NextCatalogue]_vars

(***************************************************************************)
(* Properties.                                                             *)
(***************************************************************************)
\* This step is a call of procedure op: every call sets last, and only the
\* passing of time and the steps of the concurrent requests leave it alone.
Called(op) == last'.op = op /\ now' = now /\ pc' = pc

HasEnrollment(course_id, student_id) ==
    \E k \in DOMAIN enrollments :
        /\ enrollments[k].course_id = course_id
        /\ enrollments[k].student_id = student_id

ValidStudent(student_id) ==
    /\ student_id \in DOMAIN users
    /\ users[student_id].role = "student"
    /\ users[student_id].is_active

\* C1: in every reachable state, under every interleaving of concurrent
\* enrollInCourse calls, the enrollments table holds at most one row per
\* (course_id, student_id) pair.
C1_OneEnrollmentPerPair ==
    \A i, j \in DOMAIN enrollments :
        (/\ enrollments[i].course_id = enrollments[j].course_id
         /\ enrollments[i].student_id = enrollments[j].student_id) => i = j

\* C2: in every reachable state, under every interleaving of concurrent
\* createAssignmentSubmission calls, the submissions table holds at most one
\* row per (assignment_id, student_id) pair.
C2_OneSubmissionPerPair ==
    \A i, j \in DOMAIN submissions :
        (/\ submissions[i].assignment_id = submissions[j].assignment_id
         /\ submissions[i].student_id = submissions[j].student_id) => i = j

\* The call of this step is enrollInCourse on an existing course that is not
\* published.
EnrollOnUnpublished ==
    /\ Called("enrollInCourse")
    /\ last'.input.course_id \in DOMAIN courses
    /\ courses[last'.input.course_id].status # "published"

\* C3 as stated: every enrollInCourse call for an existing course that is
\* not published fails with 'Course is not available for enrollment',
\* whatever the student, and adds no enrollment row.
C3_AlwaysNotEnrollable ==
    [][EnrollOnUnpublished =>
         /\ last'.out = "Course is not available for enrollment"
         /\ enrollments' = enrollments]_vars

\* C3 as amended: every enrollInCourse call for an existing course that is
\* not published fails and adds no enrollment row; the error is 'Course is
\* not available for enrollment' exactly when the student exists, has role
\* student and is active, and is the student's own error otherwise.
C3_UnpublishedNeverEnrolls ==
    [][EnrollOnUnpublished =>
         /\ last'.out # OK
         /\ enrollments' = enrollments
         /\ IF ValidStudent(last'.input.student_id)
            THEN last'.out = "Course is not available for enrollment"
            ELSE last'.out \in {"Student not found", "User is not a student",
                                "Student account is inactive"}]_vars

C3_Witness ==
    /\ last.op = "enrollInCourse"
    /\ last.out = "Course is not available for enrollment"
    /\ courses[last.input.course_id].status = "archived"
    /\ ValidStudent(last.input.student_id)

\* The error the six preconditions of enrollInCourse prescribe, in their
\* order, or OK when all hold.
EnrollExpected(i) ==
    IF i.student_id \notin DOMAIN users THEN "Student not found"
    ELSE IF users[i.student_id].role # "student" THEN "User is not a student"
    ELSE IF ~users[i.student_id].is_active THEN "Student account is inactive"
    ELSE IF i.course_id \notin DOMAIN courses THEN "Course not found"
    ELSE IF courses[i.course_id].status # "published"
         THEN "Course is not available for enrollment"
    ELSE IF HasEnrollment(i.course_id, i.student_id)
         THEN "Student is already enrolled in this course"
    ELSE OK

\* C4: enrollInCourse inserts exactly one enrollment row iff all six
\* preconditions hold, and otherwise inserts nothing and fails with the
\* error of the first failing precondition; a call repeating the input of a
\* call that has just succeeded fails with 'already enrolled'.
C4_EnrollOutcome ==
    [][Called("enrollInCourse") =>
         LET i == last'.input
         IN  /\ last'.out = EnrollExpected(i)
             /\ last'.out = OK =>
                   /\ Len(enrollments') = Len(enrollments) + 1
                   /\ SubSeq(enrollments', 1, Len(enrollments)) = enrollments
                   /\ enrollments'[Len(enrollments')].course_id = i.course_id
                   /\ enrollments'[Len(enrollments')].student_id = i.student_id
             /\ last'.out # OK => enrollments' = enrollments
             /\ (last.op = "enrollInCourse" /\ last.out = OK /\ last.input = i)
                   => last'.out = "Student is already enrolled in this course"
             /\ UNCHANGED <<users, courses, assignments, submissions, projects>>
      ]_vars

C4_Witness ==
    /\ last.op = "enrollInCourse"
    /\ last.out = "Student is already enrolled in this course"
    /\ HasEnrollment(last.input.course_id, last.input.student_id)

\* The error the four preconditions of createAssignmentSubmission
\* prescribe, in their order, or OK when all hold.
SubmissionExpected(i) ==
    IF i.assignment_id \notin DOMAIN assignments THEN "Assignment not found"
    ELSE IF assignments[i.assignment_id].status # "published"
         THEN "Assignment is not published"
    ELSE IF ~HasEnrollment(assignments[i.assignment_id].course_id, i.student_id)
         THEN "Student is not enrolled in the course"
    ELSE IF \E k \in DOMAIN submissions :
               /\ submissions[k].assignment_id = i.assignment_id
               /\ submissions[k].student_id = i.student_id
         THEN "Submission already exists for this assignment"
    ELSE OK

\* C5: createAssignmentSubmission inserts a row iff the assignment exists,
\* is published, the student is enrolled in its course and has no submission
\* for it; otherwise it inserts nothing and fails with the first failing
\* check.  Every row it inserts has status draft.
C5_SubmissionOutcome ==
    [][Called("createAssignmentSubmission") =>
         LET i == last'.input
             n == Len(submissions)
         IN  /\ last'.out = SubmissionExpected(i)
             /\ last'.out = OK =>
                   /\ Len(submissions') = n + 1
                   /\ SubSeq(submissions', 1, n) = submissions
                   /\ submissions'[n + 1].assignment_id = i.assignment_id
                   /\ submissions'[n + 1].student_id = i.student_id
                   /\ submissions'[n + 1].status = "draft"
             /\ last'.out # OK => submissions' = submissions
      ]_vars

C5_Witness ==
    /\ last.op = "createAssignmentSubmission"
    /\ last.out = "Assignment is not published"
    /\ assignments[last.input.assignment_id].status = "closed"
    /\ HasEnrollment(assignments[last.input.assignment_id].course_id,
                     last.input.student_id)

\* Every submission row belongs to a student enrolled in the course of its
\* assignment.
SubmissionsOfEnrolled ==
    \A k \in DOMAIN submissions :
        HasEnrollment(assignments[submissions[k].assignment_id].course_id,
                      submissions[k].student_id)

\* C6: createAssignmentSubmission for a published assignment and a student
\* with no enrollment row in the assignment's course fails with 'Student is
\* not enrolled in the course' and inserts nothing, whatever else the
\* student is enrolled in; so every submission row belongs to a student
\* enrolled in the course of its assignment.
C6_NotEnrolledRejected ==
    /\ SubmissionsOfEnrolled
    /\ [][/\ SubmissionsOfEnrolled'
          /\ (/\ Called("createAssignmentSubmission")
              /\ last'.input.assignment_id \in DOMAIN assignments
              /\ assignments[last'.input.assignment_id].status = "published"
              /\ ~HasEnrollment(assignments[last'.input.assignment_id].course_id,
                                last'.input.student_id))
             => /\ last'.out = "Student is not enrolled in the course"
                /\ submissions' = submissions]_vars

C6_Witness ==
    /\ last.op = "createAssignmentSubmission"
    /\ last.out = "Student is not enrolled in the course"
    /\ ValidStudent(last.input.student_id)
    /\ \E k \in DOMAIN enrollments :
          /\ enrollments[k].student_id = last.input.student_id
          /\ enrollments[k].course_id
                # assignments[last.input.assignment_id].course_id

\* C7: gradeAssignmentSubmission on an existing submission in any status
\* sets status to graded, score to the input score (returned as that
\* number), feedback to the input feedback or null when it is omitted, and
\* graded_at and updated_at to the current time, and leaves every other
\* field and every other row unchanged; on an id that does not exist it
\* fails with 'not found' and changes nothing.
C7_GradeSetsInput ==
    [][Called("gradeAssignmentSubmission") =>
         LET i == last'.input
         IN  IF i.id \in DOMAIN submissions
             THEN /\ last'.out = <<OK, Num(i.score)>>
                  /\ DOMAIN submissions' = DOMAIN submissions
                  /\ \A k \in DOMAIN submissions :
                        k # i.id => submissions'[k] = submissions[k]
                  /\ submissions'[i.id].score # Null
                  /\ submissions'[i.id].score[2] * 10 = i.score
                  /\ submissions'[i.id] =
                        [submissions[i.id] EXCEPT
                           !.score = submissions'[i.id].score,
                           !.feedback = IF i.feedback = Undefined THEN Null
                                        ELSE i.feedback,
                           !.status = "graded",
                           !.graded_at = Num(now),
                           !.updated_at = now]
             ELSE /\ last'.out = <<submissionNotFound, Null>>
                  /\ submissions' = submissions
      ]_vars

\* C8: createCourse inserts exactly one course iff teacher_id resolves to an
\* existing user whose role is teacher or admin and who is active; otherwise
\* it inserts nothing and fails with the first failing check.  The inserted
\* course has the given status, or draft when none is supplied.
C8_CreateCourseOutcome ==
    [][Called("createCourse") =>
         LET i == last'.input
             n == Len(courses)
             expected ==
                 IF i.teacher_id \notin DOMAIN users THEN "Teacher not found"
                 ELSE IF users[i.teacher_id].role \notin {"teacher", "admin"}
                      THEN "Only teachers and admins can create courses"
                 ELSE IF ~users[i.teacher_id].is_active
                      THEN "Teacher account is not active"
                 ELSE OK
         IN  /\ last'.out = expected
             /\ last'.out = OK =>
                   /\ Len(courses') = n + 1
                   /\ SubSeq(courses', 1, n) = courses
                   /\ courses'[n + 1].teacher_id = i.teacher_id
                   /\ courses'[n + 1].status =
                         IF i.status = Undefined THEN "draft" ELSE i.status[2]
             /\ last'.out # OK => courses' = courses
      ]_vars

C8_Witness ==
    /\ last.op = "createCourse"
    /\ last.out = OK
    /\ last.input.status = Undefined
    /\ courses[Len(courses)].status = "draft"
    /\ users[last.input.teacher_id].role = "admin"

\* C9: createPortfolioProject inserts exactly one project iff student_id
\* resolves to an existing user with role student who is active; otherwise
\* it inserts nothing and fails with the first failing check.  The inserted
\* project has is_public = false unless is_public = true was supplied.
C9_CreateProjectOutcome ==
    [][Called("createPortfolioProject") =>
         LET i == last'.input
             n == Len(projects)
             expected ==
                 IF i.student_id \notin DOMAIN users THEN "Student not found"
                 ELSE IF users[i.student_id].role # "student"
                      THEN "User must be a student to create portfolio projects"
                 ELSE IF ~users[i.student_id].is_active
                      THEN "Student account is not active"
                 ELSE OK
         IN  /\ last'.out = expected
             /\ last'.out = OK =>
                   /\ Len(projects') = n + 1
                   /\ SubSeq(projects', 1, n) = projects
                   /\ projects'[n + 1].student_id = i.student_id
                   /\ projects'[n + 1].is_public = (i.is_public = Bool(TRUE))
             /\ last'.out # OK => projects' = projects
      ]_vars

C9_Witness ==
    /\ last.op = "createPortfolioProject"
    /\ last.out = OK
    /\ last.input.is_public = Undefined
    /\ projects[Len(projects)].is_public = FALSE

EmailsDistinct ==
    \A i, j \in DOMAIN users : users[i].email = users[j].email => i = j

\* C10: in every reachable state no two user rows have the same email;
\* createUser with an email a user already holds is rejected, and so is
\* updateUser setting a user's email to one a different user holds, in both
\* cases leaving the store unchanged.  Both procedures are one statement
\* each, so concurrent requests take effect in some order, one at a time.
C10_EmailUnique ==
    /\ EmailsDistinct
    /\ [][/\ EmailsDistinct'
          /\ (/\ Called("createUser")
              /\ \E k \in DOMAIN users : users[k].email = last'.input.email)
             => (last'.out # OK /\ UNCHANGED store)
          /\ (/\ Called("updateUser")
              /\ last'.input.email # Undefined
              /\ \E k \in DOMAIN users :
                    /\ k # last'.input.id
                    /\ users[k].email = last'.input.email[2])
             => (last'.out # OK /\ UNCHANGED store)]_vars

C10_Witness ==
    /\ last.op = "updateUser"
    /\ last.out = UniqueViolation
    /\ last.input.id \in DOMAIN users
    /\ \E k \in DOMAIN users :
          k # last.input.id /\ users[k].email = last.input.email[2]

\* The row an update of users row `old` by `i` at time t must leave.
UserUpdated(old, i, t) ==
    [id |-> old.id,
     email |-> IF i.email = Undefined THEN old.email ELSE i.email[2],
     password_hash |-> old.password_hash,
     role |-> old.role,
     avatar_url |-> IF i.avatar_url = Undefined THEN old.avatar_url
                    ELSE i.avatar_url,
     is_active |-> IF i.is_active = Undefined THEN old.is_active
                   ELSE i.is_active[2],
     created_at |-> old.created_at,
     updated_at |-> t]

\* The row an update of courses row `old` by `i` at time t must leave.
CourseUpdated(old, i, t) ==
    [id |-> old.id,
     description |-> IF i.description = Undefined THEN old.description
                     ELSE i.description,
     teacher_id |-> old.teacher_id,
     status |-> IF i.status = Undefined THEN old.status ELSE i.status[2],
     created_at |-> old.created_at,
     updated_at |-> t]

\* C11: updateUser and updateCourse on an existing id change exactly the
\* fields present in the input (a nullable field given as null becomes
\* null) and updated_at; absent fields, id, created_at, the user's role and
\* password_hash and the course's teacher_id keep their values, and no other
\* row of any table changes.  An updateUser the unique index on email
\* rejects changes nothing.
C11_PartialUpdate ==
    [][/\ (Called("updateUser") /\ last'.input.id \in DOMAIN users) =>
             LET i == last'.input
             IN  /\ last'.out \in {OK, UniqueViolation}
                 /\ last'.out = OK =>
                       users' = [users EXCEPT
                                   ![i.id] = UserUpdated(users[i.id], i, now)]
                 /\ last'.out # OK => users' = users
                 /\ UNCHANGED <<courses, enrollments, assignments,
                                submissions, projects>>
       /\ (Called("updateCourse") /\ last'.input.id \in DOMAIN courses) =>
             LET i == last'.input
             IN  /\ last'.out = OK
                 /\ courses' = [courses EXCEPT
                                  ![i.id] = CourseUpdated(courses[i.id], i, now)]
                 /\ UNCHANGED <<users, enrollments, assignments,
                                submissions, projects>>
      ]_vars

C11_Witness ==
    /\ last.op = "updateCourse"
    /\ last.out = OK
    /\ last.input.description = Null
    /\ last.input.status = Undefined
    /\ courses[last.input.id].description = Null
    /\ courses[last.input.id].status = "archived"
    /\ courses[last.input.id].updated_at > courses[last.input.id].created_at
    /\ Len(courses) > 1

\* C15: getCourses returns exactly the courses whose status is published in
\* the current store, each once and as stored, and never a draft or archived
\* course; it changes nothing.
C15_PublishedOnly ==
    [][Called("getCourses") =>
         LET r == last'.out
         IN  /\ \A c \in DOMAIN courses :
                    courses[c].status = "published"
                       <=> \E k \in DOMAIN r : r[k].id = c
             /\ \A j, k \in DOMAIN r : r[j].id = r[k].id => j = k
             /\ \A k \in DOMAIN r :
                    r[k].id \in DOMAIN courses /\ r[k] = courses[r[k].id]
             /\ UNCHANGED store
      ]_vars

C15_Witness ==
    /\ last.op = "getCourses"
    /\ Len(last.out) = 1
    /\ Len(courses) = 2
    /\ courses[last.out[1].id].updated_at > courses[last.out[1].id].created_at
    /\ \E c \in DOMAIN courses :
          /\ courses[c].status = "archived"
          /\ courses[c].updated_at > courses[c].created_at

\* The number of elements of S that satisfy P.
Number(S, P(_)) == Cardinality({x \in S : P(x)})

\* C12: getDashboardData(userId, 'admin') returns the number of all user
\* rows, of all course rows, of users with role student and of users with
\* role teacher, inactive users and courses of every status included; the
\* result is the same for every userId, and the call changes nothing.
C12_AdminCounts ==
    [][(Called("getDashboardData") /\ last'.input.role = "admin") =>
         /\ last'.out =
               [totalUsers |-> Len(users),
                totalCourses |-> Len(courses),
                totalStudents |->
                    Number(DOMAIN users, LAMBDA u : users[u].role = "student"),
                totalTeachers |->
                    Number(DOMAIN users, LAMBDA u : users[u].role = "teacher")]
         /\ \A id \in QueryUserIds :
               getDashboardData(users, courses, enrollments, assignments,
                                submissions, projects, id, "admin") = last'.out
         /\ UNCHANGED store
      ]_vars

C12_Witness ==
    /\ last.op = "getDashboardData"
    /\ last.input.role = "admin"
    /\ last.input.userId \notin DOMAIN users
    /\ last.out.totalUsers = 2
    /\ last.out.totalStudents = 1
    /\ last.out.totalTeachers = 0
    /\ last.out.totalCourses = 2
    /\ \E u \in DOMAIN users : ~users[u].is_active
    /\ \E c \in DOMAIN courses : courses[c].status = "archived"

C14_StudentCounts ==
    [][(Called("getDashboardData") /\ last'.input.role = "student") =>
         LET s == last'.input.userId
         IN  /\ last'.out =
                   [enrolledCourses |->
                        Number(DOMAIN courses, LAMBDA c : HasEnrollment(c, s)),
                    activeAssignments |->
                        Number(DOMAIN assignments,
                               LAMBDA a :
                                 /\ assignments[a].status = "published"
                                 /\ HasEnrollment(assignments[a].course_id, s)),
                    completedAssignments |->
                        Number(DOMAIN submissions,
                               LAMBDA k : /\ submissions[k].student_id = s
                                          /\ submissions[k].status = "graded"),
                    portfolioProjects |->
                        Number(DOMAIN projects,
                               LAMBDA q : projects[q].student_id = s)]
             /\ UNCHANGED store
      ]_vars

\* C16: getUserCourses returns, for role student, exactly the courses the
\* user has an enrollment row for, each once; for role teacher, exactly the
\* courses with teacher_id = user_id; for role admin, all courses; for any
\* other role, the empty list; courses of every status are included.
C16_UserCourses ==
    [][Called("getUserCourses") =>
         LET i == last'.input
             r == last'.out
             Expected(c) ==
                 IF i.role = "student" THEN HasEnrollment(c, i.user_id)
                 ELSE IF i.role = "teacher"
                      THEN courses[c].teacher_id = i.user_id
                 ELSE i.role = "admin"
         IN  /\ \A c \in DOMAIN courses :
                    Expected(c) <=> \E k \in DOMAIN r : r[k].id = c
             /\ \A j, k \in DOMAIN r : r[j].id = r[k].id => j = k
             /\ \A k \in DOMAIN r :
                    r[k].id \in DOMAIN courses /\ r[k] = courses[r[k].id]
             /\ UNCHANGED store
      ]_vars

\* r lists exactly the projects that satisfy Wanted, each once and as
\* stored, newest first by created_at.
ProjectsNewestFirst(r, Wanted(_)) ==
    /\ \A q \in DOMAIN projects :
          Wanted(projects[q]) <=> \E k \in DOMAIN r : r[k].id = q
    /\ \A j, k \in DOMAIN r : r[j].id = r[k].id => j = k
    /\ \A k \in DOMAIN r : r[k].id \in DOMAIN projects /\ r[k] = projects[r[k].id]
    /\ \A j, k \in DOMAIN r : j < k => r[j].created_at >= r[k].created_at

\* C17: getPublicPortfolioProjects returns exactly the projects with
\* is_public = true, of all students, newest first by created_at, and never
\* a project with is_public = false; getStudentPortfolio(s) returns exactly
\* the projects with student_id = s, newest first.  Neither changes the
\* store.
C17_PortfolioViews ==
    [][/\ Called("getPublicPortfolioProjects") =>
             /\ ProjectsNewestFirst(last'.out, LAMBDA q : q.is_public)
             /\ UNCHANGED store
       /\ Called("getStudentPortfolio") =>
             /\ ProjectsNewestFirst(last'.out,
                     LAMBDA q : q.student_id = last'.input.student_id)
             /\ UNCHANGED store
      ]_vars

\* Two public projects of two students, the later one returned first.
C17_Witness ==
    /\ last.op = "getPublicPortfolioProjects"
    /\ Len(last.out) = 2
    /\ last.out[1].id = 2
    /\ last.out[2].id = 1
    /\ last.out[1].student_id # last.out[2].student_id
    /\ last.out[1].created_at > last.out[2].created_at

\* The user login must return for input i: the one with exactly that email,
\* if it is active and its password_hash is the hash of the password.
LoginMatches(u, i) ==
    /\ users[u].email = i.email
    /\ users[u].is_active
    /\ users[u].password_hash = sha256(i.password)

GradedConsistent(r) ==
    /\ (r.score # Null) <=> (r.graded_at # Null)
    /\ (r.graded_at # Null) <=> (r.status = "graded")

\* C19: in every state reachable through the handlers a submission has a
\* non-null score iff it has a non-null graded_at iff its status is graded;
\* createAssignmentSubmission leaves score, feedback, submitted_at and
\* graded_at null, and only gradeAssignmentSubmission ever sets score or
\* graded_at.
C19_ScoreIffGraded ==
    /\ \A k \in DOMAIN submissions : GradedConsistent(submissions[k])
    /\ [][/\ \A k \in DOMAIN submissions' : GradedConsistent(submissions'[k])
          /\ \A k \in DOMAIN submissions' :
                IF k \in DOMAIN submissions
                THEN (\/ submissions'[k].score # submissions[k].score
                      \/ submissions'[k].graded_at # submissions[k].graded_at)
                        => Called("gradeAssignmentSubmission")
                ELSE /\ Called("createAssignmentSubmission")
                     /\ submissions'[k].score = Null
                     /\ submissions'[k].feedback = Null
                     /\ submissions'[k].submitted_at = Null
                     /\ submissions'[k].graded_at = Null]_vars

C19_Witness ==
    /\ last.op = "gradeAssignmentSubmission"
    /\ last.out[1] = OK
    /\ submissions[last.input.id].status = "graded"
    /\ submissions[last.input.id].score = <<"numeric", 0>>
    /\ submissions[last.input.id].graded_at = Num(1)
    /\ submissions[last.input.id].feedback = Null

\* C20: once a submission's status is graded it is graded in every later
\* state, and no operation ever changes the status of an existing
\* submission to draft.
C20_GradedIsFinal ==
    [][\A k \in DOMAIN submissions :
         /\ k \in DOMAIN submissions'
         /\ submissions[k].status = "graded"
               => submissions'[k].status = "graded"
         /\ submissions'[k].status = "draft"
               => submissions[k].status = "draft"]_vars

\* A submission graded at time 0 is graded again at time 1.
C20_Witness ==
    /\ last.op = "gradeAssignmentSubmission"
    /\ last.out[1] = OK
    /\ now = 1
    /\ submissions[last.input.id].status = "graded"
    /\ submissions[last.input.id].graded_at = Num(1)
    /\ submissions[last.input.id].updated_at = 1
    /\ submissions[last.input.id].score = <<"numeric", 8734>>

\* C21: in every reachable state every course's teacher_id references an
\* existing user whose role is teacher or admin and who is active, also
\* after createCourse, updateCourse and updateUser calls.
C21_TeacherOfCourseActive ==
    \A c \in DOMAIN courses :
        /\ courses[c].teacher_id \in DOMAIN users
        /\ users[courses[c].teacher_id].role \in {"teacher", "admin"}
        /\ users[courses[c].teacher_id].is_active

\* C22: every enrollment row is inserted in a state in which its student is
\* an active user with role student and its course has status published,
\* also when updateUser or updateCourse runs between enrollInCourse's
\* checks and its insert.
C22_EnrollInsertChecked ==
    [][\A k \in DOMAIN enrollments' :
         k \notin DOMAIN enrollments =>
            /\ ValidStudent(enrollments'[k].student_id)
            /\ enrollments'[k].course_id \in DOMAIN courses
            /\ courses[enrollments'[k].course_id].status = "published"]_vars

\* The procedures that insert a row, those that update one, and the
\* position in store of the table each writes.
InsertProcedures ==
    {"createUser", "createCourse", "enrollInCourse", "createAssignment",
     "createAssignmentSubmission", "createPortfolioProject"}
UpdateProcedures == {"updateUser", "updateCourse", "gradeAssignmentSubmission"}
ReadProcedures ==
    {"getCourses", "getUserCourses", "getDashboardData", "getStudentPortfolio",
     "getPublicPortfolioProjects", "login"}

TableWritten(op) ==
    CASE op \in {"createUser", "updateUser"} -> 1
      [] op \in {"createCourse", "updateCourse"} -> 2
      [] op = "enrollInCourse" -> 3
      [] op = "createAssignment" -> 4
      [] op \in {"createAssignmentSubmission", "gradeAssignmentSubmission"} -> 5
      [] op = "createPortfolioProject" -> 6

\* new is old with one row appended.
OneRowInserted(old, new) ==
    /\ Len(new) = Len(old) + 1
    /\ \A j \in DOMAIN old : new[j] = old[j]

\* new is old but for the row with key id.
OneRowUpdated(old, new, id) ==
    /\ Len(new) = Len(old)
    /\ id \in DOMAIN old
    /\ \A j \in DOMAIN old : j # id => new[j] = old[j]

\* C23: every handler invocation changes at most one row of one table: a
\* failing invocation leaves every table as it was, a successful mutation
\* inserts or updates exactly one row, and a read changes nothing.
C23_OneRowWrite ==
    [][\A op \in InsertProcedures \cup UpdateProcedures \cup ReadProcedures :
         Called(op) =>
           IF op \in ReadProcedures THEN UNCHANGED store
           ELSE IF (IF op = "gradeAssignmentSubmission" THEN last'.out[1]
                    ELSE last'.out) # OK
           THEN UNCHANGED store
           ELSE LET t == TableWritten(op)
                IN  /\ \A i \in 1..6 : i # t => store'[i] = store[i]
                    /\ IF op \in InsertProcedures
                       THEN OneRowInserted(store[t], store'[t])
                       ELSE OneRowUpdated(store[t], store'[t], last'.input.id)
      ]_vars

\* A failed enrollInCourse after an enrollment and a graded submission.
C23_Witness ==
    /\ last.op = "enrollInCourse"
    /\ last.out = "Student is already enrolled in this course"
    /\ Len(enrollments) = 1
    /\ Len(submissions) = 1
    /\ submissions[1].status = "graded"
    /\ Len(projects) = 1

\* C24: a user's role never changes after creation: the role stored for a
\* user id in any later state is the role given to createUser.
C24_RoleImmutable ==
    [][\A u \in DOMAIN users' :
         IF u \in DOMAIN users
         THEN users'[u].role = users[u].role
         ELSE Called("createUser") /\ users'[u].role = last'.input.role]_vars

\* A teacher after an update of all the fields updateUser accepts.
C24_Witness ==
    /\ last.op = "updateUser"
    /\ last.out = OK
    /\ last.input.email # Undefined
    /\ last.input.is_active = Bool(FALSE)
    /\ users[last.input.id].role = "teacher"
    /\ users[last.input.id].email = last.input.email[2]
    /\ ~users[last.input.id].is_active

\* C25: in every reachable state no submission has status submitted
\* (creation yields draft, grading yields graded, nothing else changes a
\* submission), so pendingSubmissions of the teacher dashboard is 0 for
\* every teacher.
C25_NoneSubmitted ==
    /\ \A k \in DOMAIN submissions :
           submissions[k].status \in {"draft", "graded"}
    /\ \A u \in QueryUserIds :
           getTeacherDashboardData(courses, assignments, submissions,
                                   u).pendingSubmissions = 0
    /\ (last.op = "getDashboardData" /\ last.input.role = "teacher")
           => last.out.pendingSubmissions = 0

\* The dashboard of the teacher whose assignment has a draft submission.
C25_Witness ==
    /\ last.op = "getDashboardData"
    /\ last.input = [userId |-> 1, role |-> "teacher"]
    /\ last.out.totalAssignments = 1
    /\ last.out.pendingSubmissions = 0
    /\ Len(submissions) = 1
    /\ submissions[1].status = "draft"
    /\ assignments[submissions[1].assignment_id].course_id = 1

\* C26: in every reachable state every graded submission has a score with
\* 0 <= score <= max_score of its assignment.
C26_ScoreWithinMax ==
    \A k \in DOMAIN submissions :
        submissions[k].status = "graded" =>
            /\ submissions[k].score # Null
            /\ 0 <= submissions[k].score[2]
            /\ submissions[k].score[2]
                  <= assignments[submissions[k].assignment_id].max_score[2]

\* C27: every submission row is created in a state in which its student_id
\* refers to an existing user with role student who is active; a student
\* deactivated by updateUser after enrolling can no longer create
\* submissions.
C27_SubmitterActive ==
    [][\A k \in DOMAIN submissions' :
         k \notin DOMAIN submissions =>
            ValidStudent(submissions'[k].student_id)]_vars

\* C28: every result of getDashboardData(_, 'admin') is a consistent
\* snapshot: totalStudents + totalTeachers <= totalUsers, and the result is
\* the counts of one store state between the call and the return, also
\* when createUser calls commit between the four count queries.  Rows are
\* only ever appended, so the store states between call and return are the
\* prefixes of the tables of the sizes from req[p].from to req[p].to.
C28_AdminSnapshot ==
    \A p \in Procs :
        (pc[p] = "done" /\ req[p].op = "getDashboardData") =>
            /\ req[p].out.totalStudents + req[p].out.totalTeachers
                  <= req[p].out.totalUsers
            /\ \E n \in req[p].from[1]..req[p].to[1],
                  m \in req[p].from[2]..req[p].to[2] :
                    req[p].out = getAdminDashboardData(SubSeq(users, 1, n),
                                                       SubSeq(courses, 1, m))

\* C29: for every user created by createUser with email e and password p,
\* as long as the user is active and the email unchanged, login(e, p)
\* returns that user.  Every user of the store was created by createUser,
\* and p is the password its stored hash verifies.
C29_CreatedUserLogsIn ==
    [][Called("login") =>
         \A u \in DOMAIN users :
            (/\ users[u].email = last'.input.email
             /\ users[u].is_active
             /\ bunPasswordVerify(last'.input.password, users[u].password_hash))
                => last'.out = Object(users[u])]_vars

====
